---------------------------- MODULE Spec2Model ----------------------------
(***************************************************************************)
(* Model of the Preact / Custom Elements conformance suite:                *)
(*   basic-tests.js    (src/unnamed/part_000)                              *)
(*   advanced-tests.js (src/libraries/preact/src/advanced-tests.js)        *)
(*                                                                         *)
(* Both files run their top-level harness code when they are loaded, and   *)
(* register root-level beforeEach/afterEach hooks; root-level hooks of a   *)
(* loaded file run around every test case of the run.  The document is     *)
(* modelled as a tree of nodes; a test body is a straight-line program of  *)
(* DOM / component operations, executed one statement per step.            *)
(***************************************************************************)
EXTENDS Integers, Sequences, FiniteSets, TLC

\* Number of test cases one run executes at most.
MaxCases == 2

\* The value of a reference that points at no node (`scratch = null`).
NULL == 0

Modules == {"basic", "advanced"}

VARIABLES
  loaded,      \* modules whose top-level code has run, in load order
  started,     \* the runner has begun executing test cases
  body,        \* children of document.body, in document order (node ids)
  nodes,       \* node id -> [id, kids, fx, st, els]
  nextNode,    \* next fresh node id (document.createElement)
  app,         \* module -> node id of its `app` variable
  scratch,     \* module -> node id of its `scratch` variable, or NULL
  phase,       \* "idle" | "setup" | "body" | "teardown"
  hookIdx,     \* index in `loaded` of the next hook to run
  cur,         \* test case being executed, or "" when none
  pc,          \* index of the next statement of the body
  suspended,   \* the async body is parked on `await`
  locals,      \* the body's local variables
  microtasks,  \* queue of pending promise reactions
  results,     \* test case -> "passed" | "failed"
  log          \* events of the run, in order

vars == <<loaded, started, body, nodes, nextNode, app, scratch, phase, hookIdx,
          cur, pc, suspended, locals, microtasks, results, log>>

-----------------------------------------------------------------------------
(* JavaScript values *)

Undef == [t |-> "undef", v |-> ""]
JsNull == [t |-> "null", v |-> ""]
JsBool(b) == [t |-> "bool", v |-> b]
JsNum(n) == [t |-> "num", v |-> n]
JsStr(s) == [t |-> "str", v |-> s]
JsArr(s) == [t |-> "arr", v |-> s]
JsObj(r) == [t |-> "obj", v |-> r]

\* Strings whose characters matter are sequences of one-character strings.
StrPreact == <<"P", "r", "e", "a", "c", "t">>
Str42 == <<"4", "2">>
StrTrue == <<"t", "r", "u", "e">>

\* chai's eql: same type and structurally equal.
JsEql(a, b) == a.t = b.t /\ a.v = b.v

\* ToBoolean.
Truthy(x) ==
  CASE x.t = "bool" -> x.v
    [] x.t = "num"  -> x.v # 0
    [] x.t = "str"  -> Len(x.v) > 0
    [] x.t \in {"arr", "obj"} -> TRUE
    [] OTHER -> FALSE

\* a || b
JsOr(a, b) == IF Truthy(a) THEN a ELSE b

Digits == <<"0", "1", "2", "3", "4", "5", "6", "7", "8", "9">>
IsDigit(c) == \E i \in 1..Len(Digits) : Digits[i] = c
DigitVal(c) == (CHOOSE i \in 1..Len(Digits) : Digits[i] = c) - 1

\* Number.prototype.toString for the non-negative integers of the suite.
RECURSIVE NumToString(_)
NumToString(n) ==
  IF n < 10 THEN <<Digits[n + 1]>>
  ELSE Append(NumToString(n \div 10), Digits[(n % 10) + 1])

\* Boolean.prototype.toString.
BoolToString(b) == IF b THEN "true" ELSE "false"

\* The number the decimal digits of s from position i on spell, after acc.
RECURSIVE ParseDigits(_, _, _)
ParseDigits(s, i, acc) ==
  IF i > Len(s) \/ ~IsDigit(s[i]) THEN acc
  ELSE ParseDigits(s, i + 1, acc * 10 + DigitVal(s[i]))

NaN == [t |-> "nan", v |-> ""]

\* parseInt(x, 10): x is converted to a string, then its digit prefix is read.
ParseInt(x) ==
  LET s == CASE x.t = "num" -> NumToString(x.v)
             [] x.t = "str" -> x.v
             [] OTHER -> <<>>
  IN IF Len(s) > 0 /\ IsDigit(s[1]) THEN JsNum(ParseDigits(s, 1, 0)) ELSE NaN

\* String.prototype.includes for a one-character needle.
Includes(s, c) == \E i \in 1..Len(s) : s[i] = c


-----------------------------------------------------------------------------
(* Elements and fixture components (./components, rendered by the library) *)

EmptyMap == [x \in {} |-> x]

\* An element inside a scratch root, as the test bodies read it.
El(text, chars, shadowRoot, shadow, prop, attr, on) ==
  [text |-> text, chars |-> chars, shadowRoot |-> shadowRoot, shadow |-> shadow,
   prop |-> prop, attr |-> attr, on |-> on]

PlainEl(text) == El(text, <<>>, FALSE, EmptyMap, EmptyMap, EmptyMap, EmptyMap)

\* <ce-with-children>: its shadow root holds a heading and a paragraph.
ChildrenShadow == ("h1" :> "Test h1") @@ ("p" :> "Test p")
CeWithChildren(chars) ==
  El("", chars, TRUE, ChildrenShadow, EmptyMap, EmptyMap, EmptyMap)

\* The events <ce-with-event> dispatches on click, and the flag the fixture's
\* handler for each of them sets.
ClickEvents ==
  {"lowercaseevent", "kebab-event", "camelEvent", "CAPSevent", "PascalEvent"}
DeclarativeHandlers ==
  ("lowercaseevent" :> "lowercase") @@ ("kebab-event" :> "kebab") @@
  ("camelEvent" :> "camel") @@ ("CAPSevent" :> "caps") @@
  ("PascalEvent" :> "pascal")
ImperativeHandlers == ("camelEvent" :> "handled")
DeclarativeFlags == {"lowercase", "kebab", "camel", "caps", "pascal"}

\* How the payload of <ce-with-properties> ends up on the native element.
Exposures == {"prop", "attr", "both"}

PayloadProps ==
  ("bool" :> JsBool(TRUE)) @@ ("num" :> JsNum(42)) @@ ("str" :> JsStr(StrPreact)) @@
  ("arr" :> JsArr(StrPreact)) @@
  ("obj" :> JsObj([org |-> "developit", repo |-> "preact"]))
PayloadAttrs ==
  ("bool" :> JsStr(StrTrue)) @@ ("num" :> JsStr(Str42)) @@ ("str" :> JsStr(StrPreact))

CeWithProperties(e) ==
  El("", <<>>, FALSE, EmptyMap,
     IF e \in {"prop", "both"} THEN PayloadProps ELSE EmptyMap,
     IF e \in {"attr", "both"} THEN PayloadAttrs ELSE EmptyMap,
     EmptyMap)

CeWithEvent(on) == El("", <<>>, FALSE, EmptyMap, EmptyMap, EmptyMap, on)

Fixtures ==
  {"WithoutChildren", "WithChildren", "Rerender", "DifferentViews", "Properties",
   "ImperativeEvent", "DeclarativeEvent"}

\* Component state at construction.
InitState(e) == [count |-> 1, showWC |-> TRUE, flags |-> {}, exposure |-> e]
NoState == InitState("prop")

\* The component's render(): the elements (by id) under the scratch root.
RenderEls(fx, st) ==
  CASE fx = "WithoutChildren" -> ("wc" :> PlainEl(""))
    [] fx = "WithChildren" -> ("wc" :> CeWithChildren(<<>>))
    [] fx = "Rerender" -> ("wc" :> CeWithChildren(NumToString(st.count)))
    [] fx = "DifferentViews" ->
         IF st.showWC THEN ("wc" :> CeWithChildren(<<>>))
         ELSE ("dummy" :> PlainEl("Dummy view"))
    [] fx = "Properties" -> ("wc" :> CeWithProperties(st.exposure))
    [] fx = "ImperativeEvent" ->
         ("handled" :> PlainEl(BoolToString("handled" \in st.flags))) @@
         ("wc" :> CeWithEvent(ImperativeHandlers))
    [] fx = "DeclarativeEvent" ->
         [f \in DeclarativeFlags |-> PlainEl(BoolToString(f \in st.flags))] @@
         ("wc" :> CeWithEvent(DeclarativeHandlers))
    [] OTHER -> EmptyMap

\* Flags set by the handlers that run when element el is clicked.
ClickedFlags(el) == {el.on[ev] : ev \in ClickEvents \cap DOMAIN el.on}

-----------------------------------------------------------------------------
(* The document *)

Node(id) == [id |-> id, kids |-> <<>>, fx |-> "", st |-> NoState, els |-> EmptyMap]

RECURSIVE Flatten(_)
Flatten(ss) == IF ss = <<>> THEN <<>> ELSE Head(ss) \o Flatten(Tail(ss))

\* Element nodes of the document, in document order.
DocOrder == Flatten([i \in 1..Len(body) |-> <<body[i]>> \o nodes[body[i]].kids])

Attached(n) == \E i \in 1..Len(DocOrder) : DocOrder[i] = n

\* document.querySelector('#id'): the first match in document order, or null.
DocQuerySelector(id) ==
  LET hits == {i \in 1..Len(DocOrder) : nodes[DocOrder[i]].id = id}
  IN IF hits = {} THEN NULL
     ELSE DocOrder[CHOOSE i \in hits : \A j \in hits : i <= j]

NoEl == [node |-> NULL, el |-> ""]

\* root.querySelector('#id') below a scratch root.
QuerySelector(root, id) ==
  IF id \in DOMAIN nodes[root].els THEN [node |-> root, el |-> id] ELSE NoEl

ElOf(ref) == nodes[ref.node].els[ref.el]

\* el[name], el.hasAttribute(name), el.getAttribute(name)
Prop(el, name) == IF name \in DOMAIN el.prop THEN el.prop[name] ELSE Undef
HasAttribute(el, name) == name \in DOMAIN el.attr
GetAttribute(el, name) == IF name \in DOMAIN el.attr THEN el.attr[name] ELSE JsNull

-----------------------------------------------------------------------------
(* The test cases: each body is a sequence of statements *)

Stmt(op, x, y) == [op |-> op, x |-> x, y |-> y]

\* render(<Fixture />, scratch); let root = document.querySelector('#scratch');
\* let wc = root.querySelector("#wc");
Prelude(fx, ref) ==
  <<Stmt("render", fx, ref), Stmt("qroot", "", ""), Stmt("qsel", "wc", "wc")>>

\* The statements every "can declaratively listen" body ends with.
ListenTail(flag) ==
  <<Stmt("qsel", "handled", flag), Stmt("text", "handled", "false"),
    Stmt("click", "", ""), Stmt("forceUpdate", "", ""),
    Stmt("text", "handled", "true")>>

BasicTests ==
  {"noChildren", "children", "lightChildren", "views", "bool", "num", "str",
   "imperative"}
AdvancedTests == {"arr", "obj", "lowercase", "kebab", "camel", "caps", "pascal"}
Tests == BasicTests \cup AdvancedTests

ModOf(t) == IF t \in BasicTests THEN "basic" ELSE "advanced"
TestsOf(m) == IF m = "basic" THEN BasicTests ELSE AdvancedTests

Prog(t) ==
  CASE t = "noChildren" ->
         Prelude("WithoutChildren", "") \o <<Stmt("exist", "wc", "")>>
    [] t = "children" ->
         Prelude("WithChildren", "") \o <<Stmt("hasChildren", "wc", "")>>
    [] t = "lightChildren" ->
         Prelude("Rerender", "ref") \o
         <<Stmt("await", "", ""), Stmt("forceUpdate", "", ""),
           Stmt("hasChildren", "wc", ""), Stmt("includes", "wc", "2")>>
    [] t = "views" ->
         Prelude("DifferentViews", "ref") \o
         <<Stmt("hasChildren", "wc", ""),
           Stmt("toggle", "", ""), Stmt("forceUpdate", "", ""),
           Stmt("qsel", "dummy", "dummy"), Stmt("exist", "dummy", ""),
           Stmt("text", "dummy", "Dummy view"),
           Stmt("toggle", "", ""), Stmt("forceUpdate", "", ""),
           Stmt("qsel", "wc", "wc"), Stmt("hasChildren", "wc", "")>>
    [] t \in {"bool", "num", "str"} ->
         Prelude("Properties", "") \o <<Stmt("data", t, ""), Stmt("expectData", t, "")>>
    [] t = "imperative" ->
         Prelude("ImperativeEvent", "ref") \o <<Stmt("exist", "wc", "")>> \o
         ListenTail("handled")
    [] t = "arr" ->
         Prelude("Properties", "") \o
         <<Stmt("consoleLog", "wc", ""), Stmt("data", t, ""), Stmt("expectData", t, "")>>
    [] t = "obj" ->
         Prelude("Properties", "") \o <<Stmt("data", t, ""), Stmt("expectData", t, "")>>
    [] t = "lowercase" ->
         Prelude("DeclarativeEvent", "ref") \o <<Stmt("exist", "wc", "")>> \o
         ListenTail("lowercase")
    [] OTHER -> Prelude("DeclarativeEvent", "ref") \o ListenTail(t)

ElVars == {"wc", "handled", "dummy"}
InitLocals ==
  [root |-> NULL, component |-> NULL, data |-> Undef, el |-> [x \in ElVars |-> NoEl]]

-----------------------------------------------------------------------------
(* State after construction: an empty document, nothing loaded *)

Init ==
  /\ loaded = <<>>
  /\ started = FALSE
  /\ body = <<>>
  /\ nodes = EmptyMap
  /\ nextNode = 1
  /\ app = [m \in Modules |-> NULL]
  /\ scratch = [m \in Modules |-> NULL]
  /\ phase = "idle"
  /\ hookIdx = 1
  /\ cur = ""
  /\ pc = 1
  /\ suspended = FALSE
  /\ locals = InitLocals
  /\ microtasks = <<>>
  /\ results = EmptyMap
  /\ log = <<>>

runner == <<phase, hookIdx, cur, pc, suspended, locals, microtasks, results, log>>

-----------------------------------------------------------------------------
(* The harness of each file *)

\* Top-level code of module m: create the app root, attach it to the body.
ModuleSetup(m) ==
  /\ nodes' = nodes @@ (nextNode :> Node("app"))
  /\ nextNode' = nextNode + 1
  /\ body' = Append(body, nextNode)
  /\ app' = [app EXCEPT ![m] = nextNode]
  /\ UNCHANGED scratch

\* beforeEach of module m: a new div#scratch appended to the module's app root.
BeforeEachHook(m) ==
  /\ nodes' = [nodes @@ (nextNode :> Node("scratch")) EXCEPT
                 ![app[m]].kids = Append(@, nextNode)]
  /\ nextNode' = nextNode + 1
  /\ scratch' = [scratch EXCEPT ![m] = nextNode]
  /\ UNCHANGED <<body, app>>

\* A teardown that forgets `app.innerHTML = ""`.
AfterEachKeepsChildren(m) ==
  /\ scratch' = [scratch EXCEPT ![m] = NULL]
  /\ UNCHANGED <<nodes, body, app, nextNode>>

\* A teardown that forgets `scratch = null`.
AfterEachKeepsHandle(m) ==
  LET gone == {nodes[app[m]].kids[i] : i \in 1..Len(nodes[app[m]].kids)}
  IN /\ nodes' = [n \in DOMAIN nodes \ gone |->
                    IF n = app[m] THEN [nodes[n] EXCEPT !.kids = <<>>] ELSE nodes[n]]
     /\ UNCHANGED <<scratch, body, app, nextNode>>

\* afterEach of module m: app.innerHTML = ""; scratch = null.
AfterEachHook(m) ==
  LET gone == {nodes[app[m]].kids[i] : i \in 1..Len(nodes[app[m]].kids)}
  IN /\ nodes' = [n \in DOMAIN nodes \ gone |->
                    IF n = app[m] THEN [nodes[n] EXCEPT !.kids = <<>>] ELSE nodes[n]]
     /\ scratch' = [scratch EXCEPT ![m] = NULL]
     /\ UNCHANGED <<body, app, nextNode>>

-----------------------------------------------------------------------------
(* The runner *)

\* A test file is loaded: its top-level code runs, its hooks and cases register.
LoadModule(m) ==
  /\ ~started
  /\ m \notin {loaded[i] : i \in 1..Len(loaded)}
  /\ ModuleSetup(m)
  /\ loaded' = Append(loaded, m)
  /\ UNCHANGED <<started, runner>>

Registered == UNION {TestsOf(loaded[i]) : i \in 1..Len(loaded)}

\* The runner picks the next case.
StartCase(t) ==
  /\ phase = "idle"
  /\ microtasks = <<>>
  /\ t \in Registered \ DOMAIN results
  /\ Cardinality(DOMAIN results) < MaxCases
  /\ started' = TRUE
  /\ cur' = t
  /\ phase' = "setup"
  /\ hookIdx' = 1
  /\ UNCHANGED <<loaded, body, nodes, nextNode, app, scratch, pc, suspended, locals,
                 microtasks, results, log>>

\* The runner calls the next beforeEach hook, in registration order.
RunBeforeEach ==
  /\ phase = "setup"
  /\ hookIdx <= Len(loaded)
  /\ microtasks = <<>>
  /\ BeforeEachHook(loaded[hookIdx])
  /\ hookIdx' = hookIdx + 1
  /\ log' = Append(log, "setUp")
  /\ UNCHANGED <<loaded, started, phase, cur, pc, suspended, locals, microtasks, results>>

\* All beforeEach hooks are done: the runner calls the body.
CallBody ==
  /\ phase = "setup"
  /\ hookIdx > Len(loaded)
  /\ microtasks = <<>>
  /\ phase' = "body"
  /\ pc' = 1
  /\ locals' = InitLocals
  /\ log' = Append(log, "bodyStart")
  /\ UNCHANGED <<loaded, started, body, nodes, nextNode, app, scratch, hookIdx, cur,
                 suspended, microtasks, results>>

\* The body is over with the given outcome: the runner turns to the afterEach hooks.
BodyEnds(outcome) ==
  /\ results' = results @@ (cur :> outcome)
  /\ phase' = "teardown"
  /\ hookIdx' = 1
  /\ locals' = InitLocals
  /\ log' = Append(log, "bodyEnd")
  /\ UNCHANGED <<cur, pc>>

\* The body returned (or its promise resolved).
BodyReturns ==
  /\ phase = "body"
  /\ ~suspended
  /\ pc > Len(Prog(cur))
  /\ BodyEnds("passed")
  /\ UNCHANGED <<loaded, started, body, nodes, nextNode, app, scratch, suspended,
                 microtasks>>

\* A teardown that is not registered as a per-case hook: the runner has nothing
\* to call after the body.
RunAfterEachSkipped ==
  /\ phase = "teardown"
  /\ hookIdx <= Len(loaded)
  /\ microtasks = <<>>
  /\ hookIdx' = hookIdx + 1
  /\ UNCHANGED <<loaded, started, body, nodes, nextNode, app, scratch, phase, cur, pc,
                 suspended, locals, microtasks, results, log>>

\* The runner calls the next afterEach hook, in registration order.
RunAfterEach ==
  /\ phase = "teardown"
  /\ hookIdx <= Len(loaded)
  /\ microtasks = <<>>
  /\ AfterEachHook(loaded[hookIdx])
  /\ hookIdx' = hookIdx + 1
  /\ log' = Append(log, "tearDown")
  /\ UNCHANGED <<loaded, started, phase, cur, pc, suspended, locals, microtasks, results>>

\* All afterEach hooks are done: the case is over.
FinishCase ==
  /\ phase = "teardown"
  /\ hookIdx > Len(loaded)
  /\ microtasks = <<>>
  /\ phase' = "idle"
  /\ cur' = ""
  /\ pc' = 1
  /\ hookIdx' = 1
  /\ UNCHANGED <<loaded, started, body, nodes, nextNode, app, scratch, suspended, locals,
                 microtasks, results, log>>

-----------------------------------------------------------------------------
(* The statements of a test body *)

harness == <<loaded, started, body, nextNode, app, scratch>>

\* The body is about to execute a statement of kind op.
At(op) ==
  /\ phase = "body"
  /\ ~suspended
  /\ pc <= Len(Prog(cur))
  /\ Prog(cur)[pc].op = op

Cmd == Prog(cur)[pc]

\* The statement completes; the locals become l.
Continue(l) ==
  /\ pc' = pc + 1
  /\ locals' = l
  /\ UNCHANGED <<phase, hookIdx, cur, results, log>>

\* The statement throws (a failed expectation or a TypeError): the case fails.
Throw == BodyEnds("failed")

\* The scratch root the body of the current case renders into.
Target == scratch[ModOf(cur)]

\* The payload exposures the library may produce for a fixture.
ExposuresOf(fx) == IF fx = "Properties" THEN Exposures ELSE {"prop"}

\* render(<Fixture ref=... />, scratch)
Render ==
  /\ At("render")
  /\ IF Target = NULL
     THEN Throw /\ UNCHANGED <<nodes, microtasks>>
     ELSE /\ \E e \in ExposuresOf(Cmd.x) :
               nodes' = [nodes EXCEPT ![Target].fx = Cmd.x,
                                      ![Target].st = InitState(e),
                                      ![Target].els = RenderEls(Cmd.x, InitState(e))]
          /\ microtasks' =
               IF Cmd.x = "Rerender"
               THEN Append(microtasks, [k |-> "setCount", node |-> Target])
               ELSE microtasks
          /\ Continue(IF Cmd.y = "ref" THEN [locals EXCEPT !.component = Target]
                      ELSE locals)
  /\ UNCHANGED <<harness, suspended>>

\* let root = document.querySelector('#scratch')
QueryRoot ==
  /\ At("qroot")
  /\ Continue([locals EXCEPT !.root = DocQuerySelector("scratch")])
  /\ UNCHANGED <<harness, nodes, suspended, microtasks>>

\* let x = root.querySelector("#y")
QuerySel ==
  /\ At("qsel")
  /\ IF locals.root = NULL THEN Throw
     ELSE Continue([locals EXCEPT !.el[Cmd.x] = QuerySelector(locals.root, Cmd.y)])
  /\ UNCHANGED <<harness, nodes, suspended, microtasks>>

\* expect(x).to.exist
ExpectExist ==
  /\ At("exist")
  /\ IF locals.el[Cmd.x] = NoEl THEN Throw ELSE Continue(locals)
  /\ UNCHANGED <<harness, nodes, suspended, microtasks>>

\* What expectHasChildren(wc) accepts.
HasChildren(ref) ==
  /\ ref # NoEl
  /\ ElOf(ref).shadowRoot
  /\ "h1" \in DOMAIN ElOf(ref).shadow
  /\ ElOf(ref).shadow["h1"] = "Test h1"
  /\ "p" \in DOMAIN ElOf(ref).shadow
  /\ ElOf(ref).shadow["p"] = "Test p"

\* expectHasChildren(wc)
ExpectHasChildren ==
  /\ At("hasChildren")
  /\ IF HasChildren(locals.el[Cmd.x]) THEN Continue(locals) ELSE Throw
  /\ UNCHANGED <<harness, nodes, suspended, microtasks>>

\* expect(x.textContent).to.eql(y)
ExpectText ==
  /\ At("text")
  /\ IF locals.el[Cmd.x] # NoEl /\ ElOf(locals.el[Cmd.x]).text = Cmd.y
     THEN Continue(locals) ELSE Throw
  /\ UNCHANGED <<harness, nodes, suspended, microtasks>>

\* A click whose events reach no handler.
ClickNoDispatch ==
  /\ At("click")
  /\ IF locals.el["wc"] = NoEl THEN Throw ELSE Continue(locals)
  /\ UNCHANGED <<harness, nodes, suspended, microtasks>>

\* wc.click(): the element dispatches its events; each bound handler sets its flag
\* in the state of the component that owns the element.
Click ==
  /\ At("click")
  /\ IF locals.el["wc"] = NoEl
     THEN Throw /\ UNCHANGED nodes
     ELSE /\ nodes' = [nodes EXCEPT ![locals.el["wc"].node].st.flags =
                         @ \cup ClickedFlags(ElOf(locals.el["wc"]))]
          /\ Continue(locals)
  /\ UNCHANGED <<harness, suspended, microtasks>>

\* A body that goes on without the forced re-render taking effect.
ForceUpdateNoRender ==
  /\ At("forceUpdate")
  /\ IF locals.component = NULL THEN Throw ELSE Continue(locals)
  /\ UNCHANGED <<harness, nodes, suspended, microtasks>>

\* component.forceUpdate(): the component renders its current state.
ForceUpdate ==
  /\ At("forceUpdate")
  /\ IF locals.component = NULL
     THEN Throw /\ UNCHANGED nodes
     ELSE /\ nodes' = [nodes EXCEPT ![locals.component].els =
                         RenderEls(nodes[locals.component].fx, nodes[locals.component].st)]
          /\ Continue(locals)
  /\ UNCHANGED <<harness, suspended, microtasks>>

\* A toggle that leaves the view as it is.
ToggleNoFlip ==
  /\ At("toggle")
  /\ IF locals.component = NULL THEN Throw ELSE Continue(locals)
  /\ UNCHANGED <<harness, nodes, suspended, microtasks>>

\* component.toggle()
Toggle ==
  /\ At("toggle")
  /\ IF locals.component = NULL
     THEN Throw /\ UNCHANGED nodes
     ELSE /\ nodes' = [nodes EXCEPT ![locals.component].st.showWC = ~@]
          /\ Continue(locals)
  /\ UNCHANGED <<harness, suspended, microtasks>>

\* await Promise.resolve(): the body parks; its continuation is queued.
Await ==
  /\ At("await")
  /\ suspended' = TRUE
  /\ microtasks' = Append(microtasks, [k |-> "resume", node |-> NULL])
  /\ Continue(locals)
  /\ UNCHANGED <<harness, nodes>>

\* expect(wc.textContent.includes("2")).to.be.true
ExpectIncludes ==
  /\ At("includes")
  /\ IF locals.el[Cmd.x] # NoEl /\ Includes(ElOf(locals.el[Cmd.x]).chars, Cmd.y)
     THEN Continue(locals) ELSE Throw
  /\ UNCHANGED <<harness, nodes, suspended, microtasks>>

\* console.log(wc)
ConsoleLog ==
  /\ At("consoleLog")
  /\ Continue(locals)
  /\ UNCHANGED <<harness, nodes, suspended, microtasks>>

\* A read that looks at the property alone.
ReadDataPropertyOnly(kind, el) == Prop(el, kind)

\* The value the body reads off the element for the payload named kind.
ReadData(kind, el) ==
  CASE kind = "bool" -> JsOr(Prop(el, "bool"), JsBool(HasAttribute(el, "bool")))
    [] kind = "num" -> JsOr(Prop(el, "num"), GetAttribute(el, "num"))
    [] kind = "str" -> JsOr(Prop(el, "str"), GetAttribute(el, "str"))
    [] OTHER -> Prop(el, kind)

\* let data = wc.x || wc.getAttribute("x")   (or wc.x alone)
Data ==
  /\ At("data")
  /\ IF locals.el["wc"] = NoEl THEN Throw
     ELSE Continue([locals EXCEPT !.data = ReadData(Cmd.x, ElOf(locals.el["wc"]))])
  /\ UNCHANGED <<harness, nodes, suspended, microtasks>>

\* What the expectation on the payload named kind accepts.
DataOk(kind, data) ==
  CASE kind = "bool" -> JsEql(data, JsBool(TRUE))
    [] kind = "num" -> JsEql(ParseInt(data), JsNum(42))
    [] kind = "str" -> JsEql(data, JsStr(StrPreact))
    [] kind = "arr" -> JsEql(data, JsArr(StrPreact))
    [] kind = "obj" -> JsEql(data, JsObj([org |-> "developit", repo |-> "preact"]))
    [] OTHER -> FALSE

\* expect(data).to.be.true / expect(parseInt(data, 10)).to.eql(42) / expect(data).to.eql(..)
ExpectData ==
  /\ At("expectData")
  /\ IF DataOk(Cmd.x, locals.data) THEN Continue(locals) ELSE Throw
  /\ UNCHANGED <<harness, nodes, suspended, microtasks>>

\* The event loop runs the oldest pending promise reaction while no code runs.
RunMicrotask ==
  /\ microtasks # <<>>
  /\ phase # "body" \/ suspended
  /\ microtasks' = Tail(microtasks)
  /\ IF Head(microtasks).k = "resume"
     THEN suspended' = FALSE /\ UNCHANGED nodes
     ELSE /\ nodes' = [nodes EXCEPT ![Head(microtasks).node].st.count = @ + 1]
          /\ UNCHANGED suspended
  /\ UNCHANGED <<harness, phase, hookIdx, cur, pc, locals, results, log>>

Next ==
  \/ \E m \in Modules : LoadModule(m)
  \/ \E t \in Tests : StartCase(t)
  \/ RunBeforeEach
  \/ CallBody
  \/ Render
  \/ QueryRoot
  \/ QuerySel
  \/ ExpectExist
  \/ ExpectHasChildren
  \/ ExpectText
  \/ Click
  \/ ForceUpdate
  \/ Toggle
  \/ Await
  \/ ExpectIncludes
  \/ ConsoleLog
  \/ Data
  \/ ExpectData
  \/ RunMicrotask
  \/ BodyReturns
  \/ RunAfterEach
  \/ FinishCase

Spec == Init /\ [][Next]_vars

-----------------------------------------------------------------------------
(* Vocabulary of the properties *)

LoadedSet == {loaded[i] : i \in 1..Len(loaded)}

\* Attached elements whose id is "scratch".
ScratchRoots == {n \in DOMAIN nodes : nodes[n].id = "scratch" /\ Attached(n)}

\* The body of case t is executing (between the runner's call and its end).
InBody(t) == phase = "body" /\ cur = t

\* Statements of kind op the executing body has completed.
Done(op) == Cardinality({i \in 1..(pc - 1) : Prog(cur)[i].op = op})

\* The body has executed all its statements.
AtEnd == pc > Len(Prog(cur))

SomeCaseFailed == \E t \in DOMAIN results : results[t] = "failed"

DeclarativeTests == {"lowercase", "kebab", "camel", "caps", "pascal"}

\* C1: while a test body executes, at most one element with id "scratch" is
\* attached to the document.
C1_AtMostOneScratchRoot == phase = "body" => Cardinality(ScratchRoots) <= 1

\* Events of one case when k hook pairs are installed: k setUps, the body, k
\* tearDowns.
CycleLen == 2 * Len(loaded) + 2
ExpectedEvent(i) ==
  LET j == (i - 1) % CycleLen
  IN CASE j < Len(loaded) -> "setUp"
       [] j = Len(loaded) -> "bodyStart"
       [] j = Len(loaded) + 1 -> "bodyEnd"
       [] OTHER -> "tearDown"

\* C2: the events of a run are, case after case, every setUp, then the body, then
\* every tearDown; a case that failed has its tearDowns before the next setUp, and
\* every finished case, passed or failed, has had its whole cycle.
C2_SetUpBodyTearDownOrder ==
  /\ \A i \in 1..Len(log) : log[i] = ExpectedEvent(i)
  /\ phase = "idle" => Len(log) = CycleLen * Cardinality(DOMAIN results)
  /\ phase = "setup" =>
       Len(log) = CycleLen * Cardinality(DOMAIN results) + (hookIdx - 1)
  /\ phase = "body" =>
       Len(log) = CycleLen * Cardinality(DOMAIN results) + Len(loaded) + 1

\* C2 witness: a case failed, its tearDowns ran, and the next case's body runs.
C2_Witness == SomeCaseFailed /\ phase = "body" /\ Len(log) > CycleLen

\* C3: when the body is about to execute its first statement, every installed
\* harness has a scratch root that is attached under its app root and has no
\* children, and no attached scratch root holds rendered content.
C3_FreshEmptyScratch ==
  (phase = "body" /\ pc = 1) =>
     /\ \A m \in LoadedSet :
          /\ scratch[m] # NULL
          /\ \E i \in 1..Len(nodes[app[m]].kids) : nodes[app[m]].kids[i] = scratch[m]
          /\ Attached(scratch[m])
     /\ \A n \in ScratchRoots :
          nodes[n].kids = <<>> /\ nodes[n].els = EmptyMap /\ nodes[n].fx = ""

\* C3 witness: a body is about to start after an earlier case failed.
C3_Witness == phase = "body" /\ pc = 1 /\ SomeCaseFailed

\* C4: a step of the afterEach hook of module m leaves m's app root without
\* children, drops the removed nodes, sets m's scratch to null, and leaves the
\* app root attached to the body with its id.
C4_TearDownFrame ==
  [][\A m \in Modules :
       (phase = "teardown" /\ hookIdx <= Len(loaded) /\ loaded[hookIdx] = m
        /\ hookIdx' = hookIdx + 1)
       => /\ nodes'[app[m]].kids = <<>>
          /\ \A i \in 1..Len(nodes[app[m]].kids) :
               nodes[app[m]].kids[i] \notin DOMAIN nodes'
          /\ scratch'[m] = NULL
          /\ app' = app
          /\ body' = body
          /\ \E i \in 1..Len(body') : body'[i] = app[m]
          /\ nodes'[app[m]].id = "app"]_vars

\* C4 witness: the first afterEach hook has run after a body that rendered and
\* passed.
C4_Witness ==
  /\ phase = "teardown" /\ hookIdx > 1
  /\ cur \in DOMAIN results /\ results[cur] = "passed"
  /\ scratch[loaded[1]] = NULL
  /\ nodes[app[loaded[1]]].kids = <<>>

\* C5: in a declarative-event case, the five flags of the rendered fixture read
\* "false" until the click, and "true" after one click and one forceUpdate; the
\* element has one handler per flag, each bound to its own event, and the case
\* clicks once.
C5_DeclarativeFlags ==
  \A t \in DeclarativeTests :
    (InBody(t) /\ Done("render") = 1) =>
      LET fxn == nodes[Target]
          on == fxn.els["wc"].on
      IN /\ Done("click") = 0 =>
              \A f \in DeclarativeFlags : fxn.els[f].text = "false"
         /\ (Done("click") = 1 /\ Done("forceUpdate") = 1) =>
              \A f \in DeclarativeFlags : fxn.els[f].text = "true"
         /\ \A f \in DeclarativeFlags :
              Cardinality({ev \in ClickEvents \cap DOMAIN on : on[ev] = f}) = 1
         /\ Done("click") <= 1

\* C5 witness: the kebab case has clicked once and forced one update.
C5_Witness ==
  /\ InBody("kebab") /\ Done("click") = 1 /\ Done("forceUpdate") = 1
  /\ nodes[Target].els["kebab"].text = "true"

\* C6: in the imperative-event case, #handled reads "false" until the click and
\* still "false" after the click until forceUpdate; after one click and one
\* forceUpdate it reads "true"; the body clicks once.
C6_ImperativeFlag ==
  (InBody("imperative") /\ Done("render") = 1) =>
    LET fxn == nodes[Target]
    IN /\ Done("forceUpdate") = 0 => fxn.els["handled"].text = "false"
       /\ Done("click") = 0 => "handled" \notin fxn.st.flags
       /\ (Done("click") = 1 /\ Done("forceUpdate") = 1) =>
            fxn.els["handled"].text = "true"
       /\ Done("click") <= 1
       /\ AtEnd => Done("click") = 1

\* C6 witness: the imperative case has executed its last expectation.
C6_Witness ==
  /\ InBody("imperative") /\ AtEnd
  /\ nodes[Target].els["handled"].text = "true"

\* C7: in the different-views case the rendered view is #wc with its heading and
\* paragraph before the first forced update, #dummy with "Dummy view" after the
\* first, and after the second the same elements as after the initial render.
C7_TwoTogglesReturn ==
  (InBody("views") /\ Done("render") = 1) =>
    LET els == nodes[Target].els
        wcRef == [node |-> Target, el |-> "wc"]
    IN /\ Done("forceUpdate") \in {0, 2} =>
            "wc" \in DOMAIN els /\ HasChildren(wcRef) /\ "dummy" \notin DOMAIN els
       /\ Done("forceUpdate") = 1 =>
            /\ Done("toggle") >= 1
            /\ "dummy" \in DOMAIN els /\ els["dummy"].text = "Dummy view"
            /\ "wc" \notin DOMAIN els
       /\ Done("forceUpdate") = 2 =>
            Done("toggle") = 2 /\ els = RenderEls("DifferentViews", InitState("prop"))

\* C7 witness: the different-views case has toggled twice and found #wc again.
C7_Witness ==
  InBody("views") /\ AtEnd /\ Done("forceUpdate") = 2 /\ locals.el["wc"] # NoEl

\* C8: when the element the body found exposes the payload as a property only
\* or as an attribute only, the value the body read passes the boolean, numeric
\* and string expectation.
C8_TolerantChecks ==
  \A t \in {"bool", "num", "str"} :
    (InBody(t) /\ Done("data") = 1 /\ locals.el["wc"] # NoEl
     /\ nodes[locals.el["wc"].node].st.exposure \in {"prop", "attr"})
    => /\ DataOk(t, locals.data)
       /\ (AtEnd => Done("expectData") = 1)

\* C8 witness: the numeric case passed its expectation on an attribute-only
\* element.
C8_Witness ==
  /\ InBody("num") /\ AtEnd /\ locals.el["wc"] # NoEl
  /\ nodes[locals.el["wc"].node].st.exposure = "attr"
  /\ locals.data.t = "str"

\* C9: while the light-DOM body is parked, and when it resumes, exactly its own
\* continuation is pending, no hook or other body has run, the scratch root it
\* rendered into is attached, the captured component is the one mounted there and
\* the captured #wc is the element rendered there.
C9_SuspensionIsExclusive ==
  (InBody("lightChildren") /\ Done("await") = 1) =>
    /\ Cardinality({i \in 1..Len(microtasks) : microtasks[i].k = "resume"}) =
         (IF suspended THEN 1 ELSE 0)
    /\ Target # NULL /\ Attached(Target)
    /\ nodes[Target].fx = "Rerender"
    /\ locals.component = Target
    /\ locals.el["wc"] = [node |-> Target, el |-> "wc"]

\* C10: once the body has looked up document.querySelector('#scratch'), the node
\* it inspects is the scratch root its module rendered into.
C10_InspectsWhatItRendered ==
  (phase = "body" /\ Done("qroot") = 1) => locals.root = Target

=============================================================================
